---- MODULE Spec2Model ----
(***************************************************************************)
(* Cafe Delights API (backend/server.py): the account, token, order,       *)
(* product and review handlers over the four document collections.         *)
(*                                                                         *)
(* Identifiers (uuid4 strings in the code) are modelled as fresh integers, *)
(* money (floats in the code) as integer cents, time as integer seconds.   *)
(* Document fields that no handler tests or computes with (phone, address, *)
(* description, category, image_url, ingredients, nutritional_info,        *)
(* payment_method, delivery_address, special_instructions, and created_at  *)
(* outside orders) are left out. Handler arguments range over the types    *)
(* the handlers declare; the one declared constraint, ReviewCreate.rating, *)
(* is modelled with the values it rejects.                                 *)
(***************************************************************************)
EXTENDS Integers, Sequences, FiniteSets, TLC

VARIABLES
    users,      \* db.users: sequence of account documents, in insertion order
    products,   \* db.products
    orders,     \* db.orders
    reviews,    \* db.reviews
    now,        \* datetime.now(timezone.utc).timestamp(), in seconds
    pending,    \* register() coroutines suspended between find_one and insert_one
    issued,     \* history: tokens handed out by create_token, with issue time
    creds,      \* history: (account id, email, password) of successful registrations
    made,       \* history: the Order records create_order returned, by position in db.orders
    resp        \* the last request served: its operation and HTTP status

vars == <<users, products, orders, reviews, now, pending, issued, creds, made, resp>>
stores == <<users, products, orders, reviews>>

----------------------------------------------------------------------------
(* Bounds of the model *)

MaxRegistered == 2      \* register requests that get past the email lookup
MaxSkew == 1            \* seconds the clock is followed for past a whole token lifetime
MaxTokens == 1          \* issued tokens remembered in the history
MaxOrders == 1          \* orders created (SpecOrders, SpecOrdersCatalog)
MaxNewProducts == 1     \* products created besides the sample data (SpecOrdersCatalog, SpecCatalog)
MaxReviews == 1         \* reviews created (SpecCatalog)
MaxDocs == 1            \* orders, products and reviews created, together (SpecShop)

(* Program constants *)

TOKEN_TTL == 86400
SECRET_KEY == "your-secret-key-change-in-production"

\* Python's None where a document or a string is expected
None == [none |-> TRUE]
NoError == "ok"

\* register requests tried: two for one email (names and passwords differ), one for another
UserCreate(email, name, password) == [email |-> email, name |-> name, password |-> password]

RegisterInputs ==
    { UserCreate("ann@x.com", "Ann", "pw1"),
      UserCreate("ann@x.com", "Annie", "pw2"),
      UserCreate("bob@x.com", "Bob", "pw1") }

Emails == {"ann@x.com", "bob@x.com", "admin@cafe.com"}
Passwords == {"pw1", "pw2", "admin123"}

CUSTOMER == "customer"
ADMIN == "admin"
UserRole == {CUSTOMER, ADMIN}

OrderStatus == {"pending", "confirmed", "preparing", "ready", "completed", "cancelled"}
PENDING == "pending"

----------------------------------------------------------------------------
(* Utility functions *)

\* sha256(password).hexdigest(): deterministic, unsalted, collision-free on
\* the passwords considered; a digest is never equal to a plaintext.
hash_password(password) == <<"sha256", password>>

\* jwt.encode(payload, SECRET_KEY, "HS256"): the claims plus a signature that
\* only the signing key reproduces.
jwt_encode(payload, key) == [payload |-> payload, sig |-> key]

\* create_token with a lifetime of a week
create_token_week(user_id, email, role) ==
    jwt_encode([user_id |-> user_id, email |-> email, role |-> role,
                exp |-> now + 7 * TOKEN_TTL], SECRET_KEY)

create_token(user_id, email, role) ==
    jwt_encode([user_id |-> user_id, email |-> email, role |-> role,
                exp |-> now + TOKEN_TTL], SECRET_KEY)

\* jwt.decode(token, SECRET_KEY, algorithms=["HS256"]): the set of outcomes.
\* At now = exp the outcome depends on the PyJWT release (exp <= now in 2.x,
\* exp < now in 1.x), so both are possible there.
IsJwt(token) == DOMAIN token = {"payload", "sig"}

jwt_decode(token, key) ==
    IF ~IsJwt(token) THEN {[error |-> "InvalidTokenError"]}
    ELSE IF token.sig # key THEN {[error |-> "InvalidTokenError"]}
    ELSE IF "exp" \in DOMAIN token.payload /\ token.payload.exp < now
        THEN {[error |-> "ExpiredSignatureError"]}
    ELSE IF "exp" \in DOMAIN token.payload /\ token.payload.exp = now
        THEN {[error |-> "ExpiredSignatureError"], [error |-> NoError, payload |-> token.payload]}
    ELSE {[error |-> NoError, payload |-> token.payload]}

\* collection.find_one({field: value}): the first matching document, or None
Matching(coll, field, value) == {i \in 1..Len(coll) : coll[i][field] = value}

find_one(coll, field, value) ==
    LET m == Matching(coll, field, value)
    IN IF m = {} THEN None ELSE coll[CHOOSE i \in m : \A j \in m : i <= j]

\* User(**doc): the pydantic model keeps its declared fields and ignores the rest
User(doc) == [id |-> doc.id, email |-> doc.email, name |-> doc.name, role |-> doc.role]

\* get_current_user taking the account's role and email from the token's claims
get_current_user_from_claims(token) ==
    { IF d.error = "ExpiredSignatureError" THEN [status |-> 401, detail |-> "Token expired"]
      ELSE IF d.error = "InvalidTokenError" THEN [status |-> 401, detail |-> "Invalid token"]
      ELSE IF "user_id" \notin DOMAIN d.payload THEN [status |-> 401, detail |-> "Invalid token"]
      ELSE LET user == find_one(users, "id", d.payload.user_id)
           IN IF user = None THEN [status |-> 401, detail |-> "User not found"]
              ELSE [status |-> 200,
                    user |-> [id |-> user.id, email |-> d.payload.email,
                              name |-> user.name, role |-> d.payload.role]]
      : d \in jwt_decode(token, SECRET_KEY) }

\* get_current_user: the set of outcomes, each an HTTP error or the account
get_current_user(token) ==
    { IF d.error = "ExpiredSignatureError" THEN [status |-> 401, detail |-> "Token expired"]
      ELSE IF d.error = "InvalidTokenError" THEN [status |-> 401, detail |-> "Invalid token"]
      ELSE IF "user_id" \notin DOMAIN d.payload THEN [status |-> 401, detail |-> "Invalid token"]
      ELSE LET user == find_one(users, "id", d.payload.user_id)
           IN IF user = None THEN [status |-> 401, detail |-> "User not found"]
              ELSE [status |-> 200, user |-> User(user)]
      : d \in jwt_decode(token, SECRET_KEY) }

----------------------------------------------------------------------------
(* State after startup_event: init_sample_data on an empty database *)

Product(id, name, price) == [id |-> id, name |-> name, price |-> price, available |-> TRUE]

sample_products ==
    << Product(1, "Espresso", 250),
       Product(2, "Cappuccino", 425),
       Product(3, "Latte", 450),
       Product(4, "Croissant", 350),
       Product(5, "Blueberry Muffin", 325),
       Product(6, "Club Sandwich", 875),
       Product(7, "Chocolate Cake", 550) >>

admin_user ==
    [id |-> 1, email |-> "admin@cafe.com", name |-> "Admin User",
     password |-> hash_password("admin123"), role |-> ADMIN]

Response(op, status) == [op |-> op, status |-> status]

Init ==
    /\ users = <<admin_user>>
    /\ products = sample_products
    /\ orders = <<>>
    /\ reviews = <<>>
    /\ now = 0
    /\ pending = <<>>
    /\ issued = {}
    /\ creds = {}
    /\ made = <<>>
    /\ resp = Response("startup", 200)

----------------------------------------------------------------------------
(* Clock *)

Tick ==
    /\ \E d \in {1, TOKEN_TTL} :
        /\ now + d <= TOKEN_TTL + MaxSkew
        /\ (now + d) % TOKEN_TTL <= MaxSkew
        /\ now' = now + d
    /\ UNCHANGED <<users, products, orders, reviews, pending, issued, creds, made, resp>>

\* the history of tokens handed out: the token, when, and for which account
Issued(token, iat, user) ==
    [token |-> token, iat |-> iat, user_id |-> user.id, email |-> user.email, role |-> user.role]

Remember(token, user) ==
    IF Cardinality(issued) < MaxTokens
    THEN issued \cup {Issued(token, now, user)}
    ELSE issued

----------------------------------------------------------------------------
(* User endpoints *)

\* register, up to its first suspension: the lookup by email
RegisterLookup ==
    \E user \in RegisterInputs :
        LET existing_user == find_one(users, "email", user.email)
        IN IF existing_user # None
           THEN /\ resp' = Response("register", 400)
                /\ UNCHANGED <<users, products, orders, reviews, now, pending, issued, creds, made>>
           ELSE /\ Len(users) - 1 + Len(pending) < MaxRegistered
                /\ pending' = Append(pending, user)
                /\ UNCHANGED <<users, products, orders, reviews, now, issued, creds, made, resp>>

RemoveAt(s, i) == [j \in 1..(Len(s) - 1) |-> IF j < i THEN s[j] ELSE s[j + 1]]

\* the document register inserts: User(**user_dict).dict(). user_dict carries
\* the password digest, but User declares no password field, so it is dropped.
register_doc(id, user) ==
    User([id |-> id, email |-> user.email, name |-> user.name, role |-> CUSTOMER,
          password |-> hash_password(user.password)])

\* register, resumed: insert_one, create_token, response
RegisterInsert ==
    \E i \in 1..Len(pending) :
        LET user == pending[i]
            user_obj == register_doc(Len(users) + 1, user)
            token == create_token(user_obj.id, user_obj.email, user_obj.role)
        IN /\ users' = Append(users, user_obj)
           /\ pending' = RemoveAt(pending, i)
           /\ issued' = Remember(token, user_obj)
           /\ creds' = creds \cup {[id |-> user_obj.id, email |-> user.email,
                                    password |-> user.password]}
           /\ resp' = Response("register", 200)
           /\ UNCHANGED <<products, orders, reviews, now, made>>

\* login: the status and body for the credentials, in the current state.
\* A document without a "password" key makes user["password"] raise KeyError,
\* which no handler catches: the request ends in a 500.
login(credentials) ==
    LET user == find_one(users, "email", credentials.email)
    IN IF user = None
       THEN [status |-> 401, detail |-> "Invalid credentials"]
       ELSE IF "password" \notin DOMAIN user
       THEN [status |-> 500, detail |-> "KeyError: 'password'"]
       ELSE IF user.password # hash_password(credentials.password)
       THEN [status |-> 401, detail |-> "Invalid credentials"]
       ELSE [status |-> 200, token |-> create_token(user.id, user.email, user.role),
             user |-> User(user)]

UserLogin(email, password) == [email |-> email, password |-> password]

Login ==
    \E email \in Emails, password \in Passwords :
        LET r == login(UserLogin(email, password))
        IN /\ resp' = Response("login", r.status)
           /\ issued' = IF r.status = 200 THEN Remember(r.token, r.user) ELSE issued
           /\ UNCHANGED <<users, products, orders, reviews, now, pending, creds, made>>

\* tokens a client can present: the ones handed out, and ones made elsewhere
\* (not a JWT; signed with another key; signed with the key in the source but
\* without user_id, for an id no account has, or claiming the admin role)
ForgedTokens ==
    { [raw |-> "not.a.jwt"],
      jwt_encode([user_id |-> 1, email |-> "admin@cafe.com", role |-> ADMIN,
                  exp |-> 2 * TOKEN_TTL + 10], "some-other-key"),
      jwt_encode([email |-> "admin@cafe.com", role |-> ADMIN,
                  exp |-> 2 * TOKEN_TTL + 10], SECRET_KEY),
      jwt_encode([user_id |-> 99, email |-> "gone@x.com", role |-> ADMIN,
                  exp |-> 2 * TOKEN_TTL + 10], SECRET_KEY),
      jwt_encode([user_id |-> 2, email |-> "ann@x.com", role |-> ADMIN,
                  exp |-> 2 * TOKEN_TTL + 10], SECRET_KEY) }

Tokens == {t.token : t \in issued} \cup ForgedTokens

\* Depends(get_current_user): its outcomes over the tokens a client can present
Authentications == UNION {get_current_user(token) : token \in Tokens}

\* a protected handler's outcome: the 401 of get_current_user, or the handler's
Unauthenticated(auth) == [status |-> auth.status, detail |-> auth.detail]

get_profile(current_user) == [status |-> 200, body |-> current_user]

GetProfile ==
    \E auth \in Authentications :
        LET r == IF auth.status # 200 THEN Unauthenticated(auth) ELSE get_profile(auth.user)
        IN /\ resp' = Response("get_profile", r.status)
           /\ UNCHANGED <<users, products, orders, reviews, now, pending, issued, creds, made>>

AuthNext == RegisterLookup \/ RegisterInsert \/ Login \/ GetProfile \/ Tick

Spec == Init /\ [][AuthNext]_vars

----------------------------------------------------------------------------
(* Product endpoints *)

ProductCreate(name, price) == [name |-> name, price |-> price]

\* price is declared float with no constraint: any number passes validation
ProductInputs == {ProductCreate("Scone", p) : p \in {-100, 300}}

get_product(product_id) ==
    LET product == find_one(products, "id", product_id)
    IN IF product = None
       THEN [status |-> 404, detail |-> "Product not found"]
       ELSE [status |-> 200, body |-> product]

create_product(product, current_user) ==
    IF current_user.role # ADMIN
    THEN [status |-> 403, detail |-> "Admin access required", products |-> products]
    ELSE LET product_obj == Product(Len(products) + 1, product.name, product.price)
         IN [status |-> 200, body |-> product_obj, products |-> Append(products, product_obj)]

CreateProduct ==
    \E auth \in Authentications :
      \E r \in IF auth.status # 200
               THEN {Unauthenticated(auth) @@ [products |-> products]}
               ELSE {create_product(product, auth.user) : product \in ProductInputs} :
           /\ products' = r.products
           /\ resp' = Response("create_product", r.status)
           /\ UNCHANGED <<users, orders, reviews, now, pending, issued, creds, made>>

ProductIds == {1, Len(sample_products) + 1, 99}

GetProduct ==
    \E product_id \in ProductIds :
        /\ resp' = Response("get_product", get_product(product_id).status)
        /\ UNCHANGED <<users, products, orders, reviews, now, pending, issued, creds, made>>

----------------------------------------------------------------------------
(* Order endpoints *)

OrderItem(product_id, quantity, price, product_name) ==
    [product_id |-> product_id, quantity |-> quantity, price |-> price,
     product_name |-> product_name]

\* item lists submitted: a two-line order from the sample menu, and a line
\* the handler accepts unchecked (unknown product, negative quantity)
ItemLists ==
    { <<OrderItem(1, 2, 250, "Espresso"), OrderItem(2, 1, 425, "Cappuccino")>>,
      <<OrderItem(99, -1, 300, "Ghost")>> }

OrderCreate(items) == [items |-> items]

RECURSIVE sum_items(_)
sum_items(items) ==
    IF items = <<>> THEN 0
    ELSE items[1].price * items[1].quantity + sum_items(Tail(items))

\* Order(**doc): the response model; every stored field is a declared one
Order(doc) ==
    [id |-> doc.id, user_id |-> doc.user_id, items |-> doc.items,
     total_amount |-> doc.total_amount, status |-> doc.status,
     created_at |-> doc.created_at, updated_at |-> doc.updated_at]

\* create_order totalling the unit prices, quantities left out
create_order_unit_prices(order, current_user) ==
    LET total_amount == sum_items([i \in 1..Len(order.items) |->
                                      [order.items[i] EXCEPT !.quantity = 1]])
        order_obj == [id |-> Len(orders) + 1, user_id |-> current_user.id,
                      items |-> order.items, total_amount |-> total_amount,
                      status |-> PENDING, created_at |-> now, updated_at |-> now]
    IN [status |-> 200, body |-> Order(order_obj), orders |-> Append(orders, order_obj)]

create_order(order, current_user) ==
    LET total_amount == sum_items(order.items)
        order_obj == [id |-> Len(orders) + 1, user_id |-> current_user.id,
                      items |-> order.items, total_amount |-> total_amount,
                      status |-> PENDING, created_at |-> now, updated_at |-> now]
    IN [status |-> 200, body |-> Order(order_obj), orders |-> Append(orders, order_obj)]

CreateOrder ==
    \E auth \in Authentications :
      \E r \in IF auth.status # 200
               THEN {Unauthenticated(auth) @@ [orders |-> orders]}
               ELSE {create_order(OrderCreate(items), auth.user) : items \in ItemLists} :
           /\ orders' = r.orders
           /\ made' = IF r.status = 200 THEN Append(made, r.body) ELSE made
           /\ resp' = Response("create_order", r.status)
           /\ UNCHANGED <<users, products, reviews, now, pending, issued, creds>>

\* find(query).to_list(): the documents that match, as Order models
\* (query: the set of owning account ids asked for, or {} for no filter)
RECURSIVE find_orders(_, _)
find_orders(coll, query) ==
    IF coll = <<>> THEN <<>>
    ELSE IF query = {} \/ coll[1].user_id \in query
    THEN <<Order(coll[1])>> \o find_orders(Tail(coll), query)
    ELSE find_orders(Tail(coll), query)

get_orders(current_user) ==
    [status |-> 200,
     body |-> IF current_user.role = CUSTOMER
              THEN find_orders(orders, {current_user.id})
              ELSE find_orders(orders, {})]

GetOrders ==
    \E auth \in Authentications :
        LET r == IF auth.status # 200 THEN Unauthenticated(auth) ELSE get_orders(auth.user)
        IN /\ resp' = Response("get_orders", r.status)
           /\ UNCHANGED <<users, products, orders, reviews, now, pending, issued, creds, made>>

\* get_order without the ownership check
get_order_any_owner(order_id, current_user) ==
    LET order == find_one(orders, "id", order_id)
    IN IF order = None
       THEN [status |-> 404, detail |-> "Order not found"]
       ELSE [status |-> 200, body |-> Order(order)]

get_order(order_id, current_user) ==
    LET order == find_one(orders, "id", order_id)
    IN IF order = None
       THEN [status |-> 404, detail |-> "Order not found"]
       ELSE IF current_user.role = CUSTOMER /\ order.user_id # current_user.id
       THEN [status |-> 403, detail |-> "Access denied"]
       ELSE [status |-> 200, body |-> Order(order)]

\* order ids asked for: every stored one, and one that is not stored
OrderIds == 1..(Len(orders) + 1)

GetOrder ==
    \E auth \in Authentications :
      \E r \in IF auth.status # 200
               THEN {Unauthenticated(auth)}
               ELSE {get_order(order_id, auth.user) : order_id \in OrderIds} :
           /\ resp' = Response("get_order", r.status)
           /\ UNCHANGED <<users, products, orders, reviews, now, pending, issued, creds, made>>

\* update_one that matches only orders not yet completed or cancelled
update_one_status_open_only(coll, order_id, status) ==
    LET m == {i \in Matching(coll, "id", order_id) :
                 coll[i].status \notin {"completed", "cancelled"}}
        first == CHOOSE i \in m : \A j \in m : i <= j
    IN IF m = {} THEN [matched_count |-> 0, coll |-> coll]
       ELSE [matched_count |-> 1,
             coll |-> [coll EXCEPT ![first].status = status, ![first].updated_at = now]]

\* update_one({"id": order_id}, {"$set": {...}}): the first match, updated
update_one_status(coll, order_id, status) ==
    LET m == Matching(coll, "id", order_id)
        first == CHOOSE i \in m : \A j \in m : i <= j
    IN IF m = {} THEN [matched_count |-> 0, coll |-> coll]
       ELSE [matched_count |-> 1,
             coll |-> [coll EXCEPT ![first].status = status, ![first].updated_at = now]]

\* update_order_status looking the order up before the role check
update_order_status_lookup_first(order_id, status, current_user) ==
    IF Matching(orders, "id", order_id) = {}
    THEN [status |-> 404, detail |-> "Order not found", orders |-> orders]
    ELSE IF current_user.role # ADMIN
    THEN [status |-> 403, detail |-> "Admin access required", orders |-> orders]
    ELSE [status |-> 200, body |-> "Order status updated",
          orders |-> update_one_status(orders, order_id, status).coll]

update_order_status(order_id, status, current_user) ==
    IF current_user.role # ADMIN
    THEN [status |-> 403, detail |-> "Admin access required", orders |-> orders]
    ELSE LET result == update_one_status(orders, order_id, status)
         IN IF result.matched_count = 0
            THEN [status |-> 404, detail |-> "Order not found", orders |-> result.coll]
            ELSE [status |-> 200, body |-> "Order status updated", orders |-> result.coll]

UpdateOrderStatus ==
    \E auth \in Authentications :
      \E r \in IF auth.status # 200
               THEN {Unauthenticated(auth) @@ [orders |-> orders]}
               ELSE {update_order_status(order_id, status, auth.user) :
                        order_id \in OrderIds, status \in OrderStatus} :
           /\ orders' = r.orders
           /\ resp' = Response("update_order_status", r.status)
           /\ UNCHANGED <<users, products, reviews, now, pending, issued, creds, made>>

----------------------------------------------------------------------------
(* Review endpoints *)

ReviewCreate(product_id, rating) == [product_id |-> product_id, rating |-> rating, comment |-> "ok"]

\* the rating constraint with ge=0
valid_rating_from_zero(rating) == rating >= 0 /\ rating <= 5

\* rating: int = Field(..., ge=1, le=5)
valid_rating(rating) == rating >= 1 /\ rating <= 5

ReviewInputs ==
    {ReviewCreate(p, r) : p \in {1, Len(sample_products) + 1, 99}, r \in {0, 1, 5, 6}}

\* request validation runs after the dependency get_current_user and before
\* the handler body: a body that fails ReviewCreate never reaches create_review
create_review(review, current_user) ==
    IF ~valid_rating(review.rating)
    THEN [status |-> 422, detail |-> "validation error", reviews |-> reviews]
    ELSE LET product == find_one(products, "id", review.product_id)
         IN IF product = None
            THEN [status |-> 404, detail |-> "Product not found", reviews |-> reviews]
            ELSE LET review_obj == [id |-> Len(reviews) + 1,
                                    product_id |-> review.product_id,
                                    user_id |-> current_user.id,
                                    user_name |-> current_user.name,
                                    rating |-> review.rating,
                                    comment |-> review.comment]
                 IN [status |-> 200, body |-> review_obj,
                     reviews |-> Append(reviews, review_obj)]

CreateReview ==
    \E auth \in Authentications :
      \E r \in IF auth.status # 200
               THEN {Unauthenticated(auth) @@ [reviews |-> reviews]}
               ELSE {create_review(review, auth.user) : review \in ReviewInputs} :
           /\ reviews' = r.reviews
           /\ resp' = Response("create_review", r.status)
           /\ UNCHANGED <<users, products, orders, now, pending, issued, creds, made>>

----------------------------------------------------------------------------
(* Dashboard endpoint for admin *)

count_documents(coll, field, value) == Cardinality(Matching(coll, field, value))

get_dashboard_stats(current_user) ==
    IF current_user.role # ADMIN
    THEN [status |-> 403, detail |-> "Admin access required"]
    ELSE [status |-> 200,
          body |-> [total_products |-> count_documents(products, "available", TRUE),
                    total_orders |-> Len(orders),
                    total_users |-> count_documents(users, "role", CUSTOMER),
                    pending_orders |-> count_documents(orders, "status", PENDING)]]

GetDashboardStats ==
    \E auth \in Authentications :
        LET r == IF auth.status # 200 THEN Unauthenticated(auth)
                 ELSE get_dashboard_stats(auth.user)
        IN /\ resp' = Response("get_dashboard_stats", r.status)
           /\ UNCHANGED <<users, products, orders, reviews, now, pending, issued, creds, made>>

----------------------------------------------------------------------------
(* The shop: the service a day and a second after startup. The admin logged *)
(* in at time 0, so that token has run out; the admin logged in again and   *)
(* Ann and Bob registered just now.                                         *)

ShopUsers ==
    <<admin_user,
      [id |-> 2, email |-> "ann@x.com", name |-> "Ann", role |-> CUSTOMER],
      [id |-> 3, email |-> "bob@x.com", name |-> "Bob", role |-> CUSTOMER]>>

ShopTime == TOKEN_TTL + 1

ShopInit ==
    /\ users = ShopUsers
    /\ products = sample_products
    /\ orders = <<>>
    /\ reviews = <<>>
    /\ now = ShopTime
    /\ pending = <<>>
    /\ issued = {Issued(create_token(u.id, u.email, u.role), now, u) :
                    u \in {ShopUsers[i] : i \in 1..Len(ShopUsers)}}
                \cup {Issued(jwt_encode([user_id |-> 1, email |-> "admin@cafe.com",
                                         role |-> ADMIN, exp |-> TOKEN_TTL], SECRET_KEY),
                             0, admin_user)}
    /\ creds = {[id |-> 2, email |-> "ann@x.com", password |-> "pw1"],
                [id |-> 3, email |-> "bob@x.com", password |-> "pw1"]}
    /\ made = <<>>
    /\ resp = Response("startup", 200)

\* The specifications bound how many documents the handlers create.
NewProducts == Len(products) - Len(sample_products)

OrdersNext ==
    \/ CreateOrder /\ Len(orders') <= MaxOrders
    \/ GetOrders
    \/ GetOrder
    \/ UpdateOrderStatus

SpecOrders == ShopInit /\ [][OrdersNext]_vars

\* the handlers that write an order, and one that writes another collection
OrdersCatalogNext ==
    \/ CreateOrder /\ Len(orders') <= MaxOrders
    \/ UpdateOrderStatus
    \/ CreateProduct /\ NewProducts' <= MaxNewProducts

SpecOrdersCatalog == ShopInit /\ [][OrdersCatalogNext]_vars

CatalogNext ==
    \/ CreateProduct /\ NewProducts' <= MaxNewProducts
    \/ GetProduct
    \/ CreateReview /\ Len(reviews') <= MaxReviews

SpecCatalog == ShopInit /\ [][CatalogNext]_vars

DocsCreated == Len(orders) + NewProducts + Len(reviews)

ShopNext ==
    \/ GetProfile
    \/ CreateProduct /\ DocsCreated' <= MaxDocs
    \/ CreateOrder /\ DocsCreated' <= MaxDocs
    \/ GetOrders
    \/ GetOrder
    \/ UpdateOrderStatus
    \/ CreateReview /\ DocsCreated' <= MaxDocs
    \/ GetDashboardStats

SpecShop == ShopInit /\ [][ShopNext]_vars

----------------------------------------------------------------------------
(* Properties *)

StoredAccount(id) == find_one(users, "id", id)

\* the accounts the tokens on offer authenticate as, in the current state
Callers == {auth.user : auth \in {a \in Authentications : a.status = 200}}
CustomerCallers == {u \in Callers : StoredAccount(u.id).role = CUSTOMER}
AdminCallers == {u \in Callers : StoredAccount(u.id).role = ADMIN}

DAY == 24 * 60 * 60

\* C1: once register(e, name, p) has succeeded, login(e, p) succeeds with a
\* token for that account id, and login(e, p') with another digest answers 401.
C1_RegisterThenLogin ==
    \A c \in creds :
        /\ LET r == login(UserLogin(c.email, c.password))
           IN r.status = 200 /\ r.token.payload.user_id = c.id
        /\ \A p \in Passwords :
            hash_password(p) # hash_password(c.password)
                => login(UserLogin(c.email, p)).status = 401

\* C2: the account store holds at most one account per email, whatever the
\* interleaving of register requests.
C2_OneAccountPerEmail ==
    \A i, j \in 1..Len(users) : users[i].email = users[j].email => i = j

\* C3: an authenticated account whose stored role is customer gets 403 from
\* create_product, update_order_status (for stored and unknown order ids alike)
\* and get_dashboard_stats, and such a step changes no collection.
AdminOps == {"create_product", "update_order_status", "get_dashboard_stats"}

C3_Forbidden ==
    \A u \in CustomerCallers :
        /\ \A product \in ProductInputs :
            LET r == create_product(product, u)
            IN r.status = 403 /\ r.products = products
        /\ \A order_id \in OrderIds, status \in OrderStatus :
            LET r == update_order_status(order_id, status, u)
            IN r.status = 403 /\ r.orders = orders
        /\ get_dashboard_stats(u).status = 403

C3_NoChange ==
    resp'.op \in AdminOps /\ resp'.status = 403 => UNCHANGED stores

C3_CustomerAdminOpForbidden == []C3_Forbidden /\ [][C3_NoChange]_vars

C3_Witness ==
    /\ resp = Response("update_order_status", 403)
    /\ Len(orders) = 1

\* C4 as stated: on a stored order, a customer who does not own it gets 403,
\* and the owner gets the very record create_order returned.
C4_OwnerGetsCreatedRecord ==
    \A u \in CustomerCallers : \A i \in 1..Len(orders) :
        LET r == get_order(orders[i].id, u)
        IN IF orders[i].user_id # u.id
           THEN r.status = 403
           ELSE r.status = 200 /\ r.body = made[i]

\* C4, amended: on a stored order, a customer who does not own it gets 403;
\* the owner gets the stored order, with the id, owning account id, items and
\* total_amount create_order returned and the status last written to it.
C4_OwnerGetsStoredOrder ==
    \A u \in CustomerCallers : \A i \in 1..Len(orders) :
        LET r == get_order(orders[i].id, u)
        IN IF orders[i].user_id # u.id
           THEN r.status = 403
           ELSE /\ r.status = 200
                /\ r.body.id = made[i].id
                /\ r.body.user_id = made[i].user_id
                /\ r.body.items = made[i].items
                /\ r.body.total_amount = made[i].total_amount
                /\ r.body.status = orders[i].status

C4_Witness ==
    /\ resp = Response("get_order", 200)
    /\ Len(orders) = 1
    /\ orders[1].user_id = 2
    /\ orders[1].status = "ready"

\* C5: every stored order keeps the items and owner submitted at creation and
\* a total_amount equal to the sum of price x quantity over those items; no
\* step changes a stored order's items, owning account id or total_amount.
SubmittedTotal(items) ==
    CASE items = <<OrderItem(1, 2, 250, "Espresso"), OrderItem(2, 1, 425, "Cappuccino")>>
            -> 2 * 250 + 1 * 425
      [] items = <<OrderItem(99, -1, 300, "Ghost")>>
            -> (-1) * 300

C5_Totals ==
    \A i \in 1..Len(orders) :
        /\ orders[i].items = made[i].items
        /\ orders[i].user_id = made[i].user_id
        /\ orders[i].total_amount = SubmittedTotal(made[i].items)

C5_Frozen ==
    \A i \in 1..Len(orders) :
        /\ i <= Len(orders')
        /\ orders'[i].items = orders[i].items
        /\ orders'[i].user_id = orders[i].user_id
        /\ orders'[i].total_amount = orders[i].total_amount

C5_OrderTotalInvariant == []C5_Totals /\ [][C5_Frozen]_vars

C5_Witness ==
    /\ Len(orders) = 1
    /\ orders[1].total_amount = 925
    /\ orders[1].status = "completed"
    /\ NewProducts = 1
    /\ resp = Response("create_product", 200)

\* C6: every stored product has a non-negative price.
C6_NonNegativePrices ==
    \A i \in 1..Len(products) : products[i].price >= 0

\* C7: an order is created pending; its status changes only in a successful
\* update_order_status step, which only an admin gets; and for an admin the
\* call on a stored order succeeds from every status to every status.
C7_AnyTransition ==
    /\ \A u \in AdminCallers : \A i \in 1..Len(orders), status \in OrderStatus :
        LET r == update_order_status(orders[i].id, status, u)
        IN /\ r.status = 200
           /\ Len(r.orders) = Len(orders)
           /\ r.orders[i].status = status
    /\ \A u \in Callers \ AdminCallers : \A order_id \in OrderIds, status \in OrderStatus :
        LET r == update_order_status(order_id, status, u)
        IN r.status # 200 /\ r.orders = orders

C7_OnlyByUpdate ==
    /\ \A i \in 1..Len(orders) :
        orders'[i].status # orders[i].status => resp' = Response("update_order_status", 200)
    /\ \A i \in (Len(orders) + 1)..Len(orders') : orders'[i].status = PENDING

C7_StatusMachine == []C7_AnyTransition /\ [][C7_OnlyByUpdate]_vars

C7_Witness ==
    /\ resp = Response("update_order_status", 200)
    /\ Len(orders) = 1
    /\ orders[1].status = "cancelled"

\* C8: a token that does not verify (not a JWT, wrong signature, expired, no
\* user_id) or names no stored account gets 401 from every protected
\* operation, in a step that changes no collection; any other token
\* authenticates as the stored account of its user_id, with the stored role
\* and name, whatever role the token claims.
FailsVerification(token) ==
    \/ ~IsJwt(token)
    \/ /\ IsJwt(token)
       /\ \/ token.sig # SECRET_KEY
          \/ token.payload.exp < now
          \/ "user_id" \notin DOMAIN token.payload

NoSuchAccount(token) ==
    /\ ~FailsVerification(token)
    /\ \A i \in 1..Len(users) : users[i].id # token.payload.user_id

AtExpiry(token) == ~FailsVerification(token) /\ token.payload.exp = now

C8_Authenticate ==
    \A token \in Tokens : \A auth \in get_current_user(token) :
        IF FailsVerification(token) \/ NoSuchAccount(token)
        THEN auth.status = 401
        ELSE \/ AtExpiry(token) /\ auth.status = 401
             \/ /\ auth.status = 200
                /\ \E i \in 1..Len(users) :
                    /\ users[i].id = token.payload.user_id
                    /\ auth.user.id = users[i].id
                    /\ auth.user.role = users[i].role
                    /\ auth.user.name = users[i].name
                    /\ auth.user.email = users[i].email

C8_NoChange == resp'.status = 401 => UNCHANGED stores

C8_Unauthenticated == []C8_Authenticate /\ [][C8_NoChange]_vars

C8_Witness ==
    /\ resp = Response("create_order", 401)
    /\ Len(reviews) = 1

\* C9: every stored review has a rating in 1..5 and the id of a stored
\* product; create_review answers 422 to a rating outside 1..5 and 404 to an
\* unknown product id, inserting nothing, and otherwise inserts exactly one
\* review with the caller's account id and stored display name.
C9_Stored ==
    \A i \in 1..Len(reviews) :
        /\ reviews[i].rating \in 1..5
        /\ \E j \in 1..Len(products) : products[j].id = reviews[i].product_id

C9_Handler ==
    \A u \in Callers : \A review \in ReviewInputs :
        LET r == create_review(review, u)
            known == \E j \in 1..Len(products) : products[j].id = review.product_id
        IN IF review.rating \notin 1..5
           THEN r.status = 422 /\ r.reviews = reviews
           ELSE IF ~known
           THEN r.status = 404 /\ r.reviews = reviews
           ELSE /\ r.status = 200
                /\ Len(r.reviews) = Len(reviews) + 1
                /\ SubSeq(r.reviews, 1, Len(reviews)) = reviews
                /\ LET new == r.reviews[Len(r.reviews)]
                   IN /\ new.product_id = review.product_id
                      /\ new.rating = review.rating
                      /\ new.user_id = u.id
                      /\ new.user_name = StoredAccount(u.id).name

C9_Step ==
    resp'.op = "create_review" =>
        /\ UNCHANGED <<users, products, orders>>
        /\ IF resp'.status = 200
           THEN Len(reviews') = Len(reviews) + 1
           ELSE reviews' = reviews

C9_Reviews == [](C9_Stored /\ C9_Handler) /\ [][C9_Step]_vars

C9_Witness ==
    /\ Len(reviews) = 1
    /\ reviews[1].rating = 5
    /\ reviews[1].product_id = Len(sample_products) + 1
    /\ reviews[1].user_name = "Bob"
    /\ resp = Response("create_review", 422)

\* C10: a token issued at time t carries the expiry t + 24 hours; decoded at
\* time t it yields the id, email and role it was issued for; decoded at any
\* time after t + 24 hours it is expired; and tokens are handed out only by a
\* successful login or register, never in exchange for a token.
C10_Expiry ==
    \A t \in issued :
        LET decoded == jwt_decode(t.token, SECRET_KEY)
        IN /\ t.token.payload.exp = t.iat + DAY
           /\ now = t.iat =>
                /\ \A d \in decoded : d.error = NoError
                /\ \A d \in decoded :
                    /\ d.payload.user_id = t.user_id
                    /\ d.payload.email = t.email
                    /\ d.payload.role = t.role
           /\ now > t.iat + DAY => decoded = {[error |-> "ExpiredSignatureError"]}

C10_NoRefresh ==
    /\ issued \subseteq issued'
    /\ issued' # issued => resp'.op \in {"login", "register"} /\ resp'.status = 200

C10_TokenLifetime == []C10_Expiry /\ [][C10_NoRefresh]_vars

C10_Witness ==
    /\ \E t \in issued : now > t.iat + DAY /\ t.role = CUSTOMER
    /\ resp = Response("get_profile", 401)

====
